---- MODULE Spec2Model ----
(***************************************************************************)
(* Langterm (src/index.js): natural language -> shell command, with a      *)
(* confirm-then-execute loop.  One run of the CLI is modelled as a state   *)
(* machine whose steps are the suspension points of Langterm.run().        *)
(*                                                                         *)
(* JavaScript strings are sequences of one-character strings, so that      *)
(* trim, includes, match, replace, join and parseInt are computed.         *)
(***************************************************************************)
EXTENDS Integers, Sequences, FiniteSets, TLC

\* ---------------------------------------------------------------- bounds
MaxArgs == 3        \* longest argument list
MaxRawLen == 5      \* longest enumerated raw model response
MaxProbes == 3      \* calls of the availability check made in a row
MaxLiveArgs == 2    \* longest argument list of the runs checked for termination
MaxInvalid == 1     \* invalid selections entered before a valid one

\* ------------------------------------------------------ string functions
WS == {" "}
\* the backtick character U+0060 (a TLA+ string cannot hold it literally)
BT == "BACKTICK"
Null4 == <<"n", "u", "l", "l">>

RECURSIVE trimStart(_)
trimStart(s) ==
  IF s # <<>> /\ Head(s) \in WS THEN trimStart(Tail(s)) ELSE s

RECURSIVE trimEnd(_)
trimEnd(s) ==
  IF s # <<>> /\ s[Len(s)] \in WS THEN trimEnd(SubSeq(s, 1, Len(s) - 1)) ELSE s

trim(s) == trimEnd(trimStart(s))

includes(s, c) == \E i \in 1..Len(s) : s[i] = c

\* index of the first backtick at or after position from, 0 when none
firstBacktick(s, from) ==
  LET I == {i \in from..Len(s) : s[i] = BT}
  IN  IF I = {} THEN 0 ELSE CHOOSE i \in I : \A j \in I : i <= j

\* command.match(/`([^`]*)`/): leftmost pair of backticks, group 1 between
match(s) ==
  LET i == firstBacktick(s, 1)
      j == IF i = 0 THEN 0 ELSE firstBacktick(s, i + 1)
  IN  IF j = 0 THEN [found |-> FALSE, group |-> <<>>]
      ELSE [found |-> TRUE, group |-> SubSeq(s, i + 1, j - 1)]

\* command.replace(/```/g, ''): every non-overlapping fence, left to right
RECURSIVE replaceFences(_)
replaceFences(s) ==
  IF Len(s) < 3 THEN s
  ELSE IF SubSeq(s, 1, 3) = <<BT, BT, BT>>
       THEN replaceFences(SubSeq(s, 4, Len(s)))
       ELSE <<Head(s)>> \o replaceFences(Tail(s))

\* the "Clean up the response" block of generateCommand
\* ( m?.[1] || command : a missing match and an empty group both fall back )
extract(r) ==
  IF includes(r, BT)
  THEN LET m == match(r)
       IN  IF m.found /\ m.group # <<>> THEN m.group ELSE r
  ELSE trim(replaceFences(r))

\* remainingArgs.join(' ')
RECURSIVE join(_)
join(a) ==
  IF a = <<>> THEN <<>>
  ELSE IF Len(a) = 1 THEN a[1]
  ELSE a[1] \o <<" ">> \o join(Tail(a))

DigitChars == <<"0", "1", "2", "3", "4", "5", "6", "7", "8", "9">>

digitVal(c) == (CHOOSE i \in 1..10 : DigitChars[i] = c) - 1

isDigit(c) == \E i \in 1..10 : DigitChars[i] = c

RECURSIVE parseDigits(_, _, _)
parseDigits(s, acc, seen) ==
  IF s # <<>> /\ isDigit(Head(s))
  THEN parseDigits(Tail(s), acc * 10 + digitVal(Head(s)), TRUE)
  ELSE [nan |-> ~seen, val |-> acc]

\* parseInt(choice): leading whitespace, optional sign, decimal digits
parseInt(s) ==
  LET t == trimStart(s)
      signed == t # <<>> /\ Head(t) \in {"-", "+"}
      neg == t # <<>> /\ Head(t) = "-"
      r == parseDigits(IF signed THEN Tail(t) ELSE t, 0, FALSE)
  IN  [nan |-> r.nan, val |-> IF neg THEN 0 - r.val ELSE r.val]

\* ------------------------------------------------------------ JS values
\* this.config after JSON.parse: null, an object with a model property,
\* an object without one, or a truthy value that is no preference object
JSNull == [t |-> "null", model |-> <<>>]

JSObject == [t |-> "object", model |-> <<>>]

JSString == [t |-> "string", model |-> <<>>]

JSPref(m) == [t |-> "pref", model |-> m]

\* !this.config
truthy(v) == v.t # "null"

\* this.config.model as JSON.stringify puts it in the request body:
\* an undefined property is dropped from the body
modelOf(v) ==
  IF v.t = "pref" THEN [defined |-> TRUE, name |-> v.model]
  ELSE [defined |-> FALSE, name |-> <<>>]

\* { ...this.config, model: modelOverride }
withModel(v, m) == JSPref(m)

\* --------------------------------------------------------------- inputs
M1 == <<"m", "1">>
M2 == <<"m", "2">>
Ls == <<"l", "s">>

HelpFlags == {<<"-", "-", "h", "e", "l", "p">>, <<"-", "h">>}
VersionFlags == {<<"-", "-", "v", "e", "r", "s", "i", "o", "n">>, <<"-", "v">>}
SetupFlags == {<<"-", "-", "s", "e", "t", "u", "p">>, <<"-", "s">>}
ModelFlags == {<<"-", "-", "m", "o", "d", "e", "l">>, <<"-", "m">>}

\* process.argv.slice(2): the words a command line is made of here
ArgTokens ==
  {<<"-", "h">>, <<"-", "v">>, <<"-", "s">>, <<"-", "m">>, M2, Ls, <<>>}

Seqs(S, n) == UNION {[1..k -> S] : k \in 0..n}

\* the preference file ~/.langtermrc: missing, unreadable, not JSON, or
\* JSON text (held as the value JSON.parse gives for it)
NoFile == [st |-> "missing", value |-> JSNull]

Files ==
  {NoFile,
   [st |-> "unreadable", value |-> JSNull],
   [st |-> "garbage", value |-> JSNull],
   [st |-> "json", value |-> JSNull],
   [st |-> "json", value |-> JSObject],
   [st |-> "json", value |-> JSString],
   [st |-> "json", value |-> JSPref(<<>>)],
   [st |-> "json", value |-> JSPref(M1)]}

\* answers of GET /api/tags: the fetch rejects, or a status and a body
TagsResponses ==
  {[net |-> FALSE, ok |-> FALSE, body |-> "none", models |-> <<>>]}
  \cup {[net |-> TRUE, ok |-> o, body |-> b, models |-> <<>>] :
          o \in BOOLEAN, b \in {"nonjson", "nolist", "list"}}
  \cup {[net |-> TRUE, ok |-> o, body |-> "list", models |-> <<M1, M2>>] :
          o \in BOOLEAN}

\* raw texts of data.response
Alphabet == {BT, " ", "a"}

Raws == Seqs(Alphabet, MaxRawLen) \cup {Null4}

\* the raw texts a generation request is answered with in a run
FenceOnly == <<BT, BT, BT>>
Fenced == <<BT, BT, BT, "a", BT, BT, BT>>
Responses ==
  Seqs(Alphabet, 1)
  \cup {Null4, <<BT, BT>>, FenceOnly, <<" ">> \o FenceOnly \o <<" ">>,
        Fenced, <<BT, "a", BT>>, <<BT, " ", "a", " ", BT>>,
        <<BT, BT, " ", BT, "a", BT>>, <<" ", "a", " ">>}

\* answers of POST /api/generate
GenResponses ==
  {[net |-> FALSE, ok |-> FALSE, body |-> "none", response |-> <<>>]}
  \cup {[net |-> TRUE, ok |-> FALSE, body |-> "json", response |-> <<>>]}
  \cup {[net |-> TRUE, ok |-> TRUE, body |-> b, response |-> <<>>] :
          b \in {"nonjson", "noresponse"}}
  \cup {[net |-> TRUE, ok |-> TRUE, body |-> "json", response |-> r] :
          r \in Responses}

\* lines the operator types
SelLines ==
  {<<>>, <<"x">>, <<"0">>, <<"1">>, <<"2">>, <<"3">>, <<"1", "x">>}
InstrLines == {<<>>, <<" ">>, Ls}
ConfirmLines == {<<>>, <<" ">>, <<"n">>}

\* how the spawned shell ends: exit with a code, killed by a signal
\* (code null), or the error event of a failed spawn
NoChild == [kind |-> "none", code |-> -1]

ExecResults ==
  {[kind |-> "exit", code |-> 0], [kind |-> "exit", code |-> 127], [kind |-> "signal", code |-> -1],
   [kind |-> "error", code |-> -1]}

\* ---------------------------------------------------------------- state
VARIABLES
  args,           \* this.args
  file,           \* the preference file
  config,         \* this.config
  modelOverride,  \* run(): modelOverride
  remainingArgs,  \* run(): remainingArgs
  setupFrom,      \* who called setup(): "flag", "firstrun" or "none"
  models,         \* setup(): models
  choice,         \* selectModel(): choice, the last line typed; a local
                  \* of selectModel, gone once setup() has saved
  selectedModel,  \* setup(): selectedModel
  userInput,      \* run(): userInput
  raw,            \* generateCommand(): data.response
  command,        \* the extracted command
  confirm,        \* run(): confirm
  pc,             \* where the run is
  exitCode,       \* the process exit code, -1 while running
  child,          \* how the spawned shell ended
  net,            \* the requests sent, in order
  prompts,        \* the operator prompts shown, in order
  execs,          \* the commands handed to spawn, in order
  out,            \* the notices printed, in order
  fsWrites,       \* the values handed to fs.writeFile, in order
  probe           \* results of checkOllama and getModels called alone

vars ==
  <<args, file, config, modelOverride, remainingArgs, setupFrom, models,
    selectedModel, userInput, raw, command, confirm, pc, exitCode, child,
    net, prompts, execs, out, fsWrites, choice, probe>>

NoOverride == [set |-> FALSE, name |-> <<>>]
NoModel == [defined |-> FALSE, name |-> <<>>]

Init ==
  /\ args \in Seqs(ArgTokens, MaxArgs)
  /\ file \in Files
  /\ config = JSNull
  /\ modelOverride = NoOverride
  /\ remainingArgs = <<>>
  /\ setupFrom = "none"
  /\ models = <<>>
  /\ selectedModel = <<>>
  /\ userInput = <<>>
  /\ raw = <<>>
  /\ command = <<>>
  /\ confirm = <<>>
  /\ pc = "run"
  /\ exitCode = -1
  /\ child = NoChild
  /\ net = <<>>
  /\ prompts = <<>>
  /\ execs = <<>>
  /\ out = <<>>
  /\ fsWrites = <<>>
  /\ choice = <<>>
  /\ probe = <<>>

\* -------------------------------------------------------------- helpers
\* process.exit(code), or the process ending when run() has returned
exit(code) ==
  /\ pc' = "exited"
  /\ exitCode' = code

\* what a fetch gave, as the request log keeps it
outcome(resp) ==
  IF ~resp.net THEN "neterr" ELSE IF ~resp.ok THEN "badstatus" ELSE "ok"

\* a generation answer is of use only with a parsable body that has response
genOutcome(g) ==
  IF outcome(g) # "ok" THEN outcome(g)
  ELSE IF g.body # "json" THEN "badbody" ELSE "ok"

tagsRequest(at, resp) ==
  [ep |-> "tags", at |-> at, res |-> outcome(resp), model |-> NoModel,
   instruction |-> <<>>]

\* loadConfig: any failure of readFile or JSON.parse leaves null
loadConfig(f) == IF f.st = "json" THEN f.value ELSE JSNull

\* a checkOllama whose catch returns true
checkOllama_always(resp) == TRUE

\* a checkOllama that forgets the status test
checkOllama_anyStatus(resp) == resp.net

\* checkOllama: true unless the fetch rejects or the status is no success
checkOllama(resp) == resp.net /\ resp.ok

\* getModels: data.models || [], and [] when fetch or json() throws
getModels(resp) ==
  IF resp.net /\ resp.body = "list" THEN resp.models ELSE <<>>

\* flags looked up one kind after the other instead of word by word
firstFlag_setupWins(a) ==
  IF \E i \in 1..Len(a) : a[i] \in SetupFlags THEN "setup"
  ELSE IF \E i \in 1..Len(a) : a[i] \in HelpFlags THEN "help"
  ELSE IF \E i \in 1..Len(a) : a[i] \in VersionFlags THEN "version"
  ELSE "none"

\* the flag loop of run(): the first help, version or setup word decides
RECURSIVE firstFlag(_)
firstFlag(a) ==
  IF a = <<>> THEN "none"
  ELSE IF Head(a) \in HelpFlags THEN "help"
  ELSE IF Head(a) \in VersionFlags THEN "version"
  ELSE IF Head(a) \in SetupFlags THEN "setup"
  ELSE firstFlag(Tail(a))

\* remainingArgs.findIndex(arg => arg === '--model' || arg === '-m'),
\* 1-based, 0 for -1
modelIndex(a) ==
  LET I == {i \in 1..Len(a) : a[i] \in ModelFlags}
  IN  IF I = {} THEN 0 ELSE CHOOSE i \in I : \A j \in I : i <= j

\* modelIndex !== -1 && remainingArgs[modelIndex + 1]
hasOverride(a) ==
  LET i == modelIndex(a)
  IN  i # 0 /\ i + 1 <= Len(a) /\ a[i + 1] # <<>>

\* a splice that takes the flag and leaves its value
splice1(a, i) == SubSeq(a, 1, i - 1) \o SubSeq(a, i + 1, Len(a))

\* remainingArgs.splice(modelIndex, 2)
splice2(a, i) == SubSeq(a, 1, i - 1) \o SubSeq(a, i + 2, Len(a))

\* the test written as !models: an empty array is truthy
noModels_falsy(ms) == FALSE

\* models.length === 0
noModels(ms) == Len(ms) = 0

\* the first-run test without its override half
needsSetup_ignoreOverride(cfg, ov) == ~truthy(cfg)

\* !this.config && !modelOverride
needsSetup(cfg, ov) == ~truthy(cfg) /\ ~ov.set

\* the blank test without trim()
isBlank_noTrim(s) == s = <<>>

\* !userInput.trim()
isBlank(s) == trim(s) = <<>>

\* the test of the command without its empty half
noCommand_nullOnly(c) == c = Null4

\* !command || command === 'null'
noCommand(c) == c = <<>> \/ c = Null4

\* the confirmation compared after trimming
confirmed_trimmed(line) == trim(line) = <<>>

\* confirm === ''
confirmed(line) == line = <<>>

\* an exit handler that resolves whatever the code
resolves_anyExit(r) == r.kind = "exit"

\* the exit handler of executeCommand resolves on code === 0 only
resolves(r) == r.kind = "exit" /\ r.code = 0

\* the flag loop without the return after setup()
returnsAfterSetup_never(from) == FALSE

\* the return that follows await this.setup() in the flag loop; the
\* first-run call of setup() has none
returnsAfterSetup(from) == from = "flag"

\* a range test no line passes
validChoice_never(line, ms) == FALSE

\* index >= 0 && index < models.length, index = parseInt(choice) - 1
validChoice(line, ms) ==
  LET n == parseInt(line)
  IN  ~n.nan /\ n.val - 1 >= 0 /\ n.val - 1 < Len(ms)

count(seq, x) == Cardinality({i \in 1..Len(seq) : seq[i] = x})

\* -------------------------------------------------------------- actions
\* run(): --help / -h comes first among the flags
Help ==
  /\ pc = "run"
  /\ firstFlag(args) = "help"
  /\ out' = Append(out, "help")
  /\ exit(0)
  /\ UNCHANGED <<choice, probe, child, args, file, config, modelOverride, remainingArgs, setupFrom,
                 models, selectedModel, userInput, raw, command, confirm,
                 net, prompts, execs, fsWrites>>

\* run(): --version / -v comes first among the flags
Version ==
  /\ pc = "run"
  /\ firstFlag(args) = "version"
  /\ out' = Append(out, "version")
  /\ exit(0)
  /\ UNCHANGED <<choice, probe, child, args, file, config, modelOverride, remainingArgs, setupFrom,
                 models, selectedModel, userInput, raw, command, confirm,
                 net, prompts, execs, fsWrites>>

\* run(): --setup / -s comes first among the flags: setup() is entered
SetupFlag ==
  /\ pc = "run"
  /\ firstFlag(args) = "setup"
  /\ setupFrom' = "flag"
  /\ out' = Append(out, "welcome")
  /\ pc' = "setup"
  /\ UNCHANGED <<choice, probe, child, args, file, config, modelOverride, remainingArgs, models,
                 selectedModel, userInput, raw, command, confirm, exitCode, net, prompts, execs, fsWrites>>

\* run(): no flag; loadConfig, the model override, first-time setup or not
Resolve ==
  /\ pc = "run"
  /\ firstFlag(args) = "none"
  /\ LET cfg == loadConfig(file)
         i == modelIndex(args)
         ov == IF hasOverride(args) THEN [set |-> TRUE, name |-> args[i + 1]]
               ELSE NoOverride
     IN  /\ modelOverride' = ov
         /\ remainingArgs' = IF ov.set THEN splice2(args, i) ELSE args
         /\ IF needsSetup(cfg, ov)
            THEN /\ config' = cfg
                 /\ setupFrom' = "firstrun"
                 /\ out' = out \o <<"no configuration", "welcome">>
                 /\ pc' = "setup"
            ELSE /\ config' = IF ov.set THEN withModel(cfg, ov.name) ELSE cfg
                 /\ setupFrom' = "none"
                 /\ out' = out
                 /\ pc' = "check"
  /\ UNCHANGED <<choice, probe, child, args, file, models, selectedModel, userInput, raw, command,
                 confirm, exitCode, net, prompts, execs, fsWrites>>

\* setup(): the availability check
SetupCheck ==
  /\ pc = "setup"
  /\ \E resp \in TagsResponses :
       /\ net' = Append(net, tagsRequest("setup", resp))
       /\ IF checkOllama(resp)
          THEN /\ pc' = "list"
               /\ UNCHANGED <<out, exitCode>>
          ELSE /\ out' = Append(out, "ollama is not running")
               /\ exit(1)
  /\ UNCHANGED <<choice, probe, child, args, file, config, modelOverride, remainingArgs, setupFrom,
                 models, selectedModel, userInput, raw, command, confirm,
                 prompts, execs, fsWrites>>

\* setup(): getModels and the zero-models exit; selectModel prints the list
SetupList ==
  /\ pc = "list"
  /\ \E resp \in TagsResponses :
       /\ net' = Append(net, tagsRequest("list", resp))
       /\ models' = getModels(resp)
       /\ IF noModels(getModels(resp))
          THEN /\ out' = Append(out, "no models found")
               /\ exit(1)
          ELSE /\ out' = Append(out, "available models")
               /\ pc' = "select"
               /\ UNCHANGED <<exitCode>>
  /\ UNCHANGED <<choice, probe, child, args, file, config, modelOverride, remainingArgs, setupFrom,
                 selectedModel, userInput, raw, command, confirm, prompts,
                 execs, fsWrites>>

\* selectModel(): a turn of the while (true) loop that returns
SelectValid ==
  /\ pc = "select"
  /\ \E line \in SelLines :
       /\ validChoice(line, models)
       /\ choice' = line
       /\ prompts' = Append(prompts, "select")
       /\ selectedModel' = models[parseInt(line).val]
       /\ pc' = "save"
  /\ UNCHANGED <<probe, child, args, file, config, modelOverride, remainingArgs,
                 setupFrom, models, userInput, raw, command, confirm,
                 exitCode, net, execs, out, fsWrites>>

\* selectModel(): a turn of the loop that prints Invalid selection and
\* asks again; the logs keep the first MaxInvalid such turns
SelectInvalid ==
  /\ pc = "select"
  /\ \E line \in SelLines :
       /\ ~validChoice(line, models)
       /\ choice' = line
       /\ IF count(out, "invalid selection") < MaxInvalid
          THEN /\ prompts' = Append(prompts, "select")
               /\ out' = Append(out, "invalid selection")
          ELSE UNCHANGED <<prompts, out>>
  /\ UNCHANGED <<probe, child, args, file, config, modelOverride, remainingArgs,
                 setupFrom, models, selectedModel, userInput, raw, command,
                 confirm, pc, exitCode, net, execs, fsWrites>>

\* selectModel(): one turn of the while (true) loop
SelectModel == SelectValid \/ SelectInvalid

\* setup(): saveConfig({ model: selectedModel }); a writeFile error leaves
\* run() rejected, which main's catch turns into exit 1.  After setup the
\* --setup run returns, the first run goes on (modelOverride is null there)
SaveConfig ==
  /\ pc = "save"
  /\ choice' = <<>>
  /\ \E written \in BOOLEAN :
       /\ fsWrites' = Append(fsWrites, [value |-> JSPref(selectedModel),
                                        written |-> written])
       /\ IF written
          THEN /\ file' = [st |-> "json", value |-> JSPref(selectedModel)]
               /\ config' = JSPref(selectedModel)
               /\ out' = Append(out, "setup complete")
               /\ IF returnsAfterSetup(setupFrom)
                  THEN exit(0)
                  ELSE /\ pc' = "check"
                       /\ UNCHANGED <<exitCode>>
          ELSE /\ out' = Append(out, "error")
               /\ exit(1)
               /\ UNCHANGED <<file, config>>
  /\ UNCHANGED <<probe, child, args, modelOverride, remainingArgs, setupFrom, models,
                 selectedModel, userInput, raw, command, confirm, net,
                 prompts, execs>>

\* run(): the availability gate, then the instruction from the arguments
Check ==
  /\ pc = "check"
  /\ \E resp \in TagsResponses :
       /\ net' = Append(net, tagsRequest("gate", resp))
       /\ IF ~checkOllama(resp)
          THEN /\ out' = Append(out, "ollama is not running")
               /\ exit(1)
               /\ UNCHANGED userInput
          ELSE IF Len(remainingArgs) > 0
          THEN /\ userInput' = join(remainingArgs)
               /\ IF isBlank(join(remainingArgs))
                  THEN /\ out' = Append(out, "no input provided")
                       /\ exit(1)
                  ELSE /\ out' = Append(out, "thinking")
                       /\ pc' = "generate"
                       /\ UNCHANGED <<exitCode>>
          ELSE /\ pc' = "ask"
               /\ UNCHANGED <<userInput, out, exitCode>>
  /\ UNCHANGED <<choice, probe, child, args, file, config, modelOverride, remainingArgs, setupFrom,
                 models, selectedModel, raw, command, confirm, prompts,
                 execs, fsWrites>>

\* run(): the instruction typed at the prompt
Ask ==
  /\ pc = "ask"
  /\ \E line \in InstrLines :
       /\ prompts' = Append(prompts, "instruction")
       /\ userInput' = line
       /\ IF isBlank(line)
          THEN /\ out' = Append(out, "no input provided")
               /\ exit(1)
          ELSE /\ out' = Append(out, "thinking")
               /\ pc' = "generate"
               /\ UNCHANGED <<exitCode>>
  /\ UNCHANGED <<choice, probe, child, args, file, config, modelOverride, remainingArgs, setupFrom,
                 models, selectedModel, raw, command, confirm, net, execs,
                 fsWrites>>

\* generateCommand() and the test of its result in run().  A rejected
\* fetch, a status that is no success, a body json() cannot parse and a
\* body without response (includes of undefined) all throw, and the catch
\* of run() exits 1
Generate ==
  /\ pc = "generate"
  /\ \E g \in GenResponses :
       /\ net' = Append(net, [ep |-> "generate", at |-> "generate",
                              res |-> genOutcome(g), model |-> modelOf(config),
                              instruction |-> userInput])
       /\ IF genOutcome(g) # "ok"
          THEN /\ out' = Append(out, "error")
               /\ exit(1)
               /\ UNCHANGED <<raw, command>>
          ELSE /\ raw' = g.response
               /\ command' = extract(g.response)
               /\ IF noCommand(extract(g.response))
                  THEN /\ out' = Append(out, "failed to generate")
                       /\ exit(1)
                  ELSE /\ out' = Append(out, "suggested command")
                       /\ pc' = "confirm"
                       /\ UNCHANGED <<exitCode>>
  /\ UNCHANGED <<choice, probe, child, args, file, config, modelOverride, remainingArgs, setupFrom,
                 models, selectedModel, userInput, confirm, prompts, execs,
                 fsWrites>>

\* run(): the confirmation line
Confirm ==
  /\ pc = "confirm"
  /\ \E line \in ConfirmLines :
       /\ prompts' = Append(prompts, "confirm")
       /\ confirm' = line
       /\ IF confirmed(line)
          THEN /\ out' = Append(out, "running")
               /\ pc' = "execute"
               /\ UNCHANGED <<exitCode>>
          ELSE /\ out' = Append(out, "cancelled")
               /\ exit(0)
  /\ UNCHANGED <<choice, probe, child, args, file, config, modelOverride, remainingArgs, setupFrom,
                 models, selectedModel, userInput, raw, command, net, execs,
                 fsWrites>>

\* executeCommand(command): resolved, run() returns; rejected, the catch
\* of run() exits 1
Execute ==
  /\ pc = "execute"
  /\ execs' = Append(execs, command)
  /\ \E r \in ExecResults :
       /\ child' = r
       /\ IF resolves(r)
          THEN /\ out' = out
               /\ exit(0)
          ELSE /\ out' = Append(out, "error")
               /\ exit(1)
  /\ UNCHANGED <<args, file, config, modelOverride, remainingArgs, setupFrom,
                 models, selectedModel, userInput, raw, command, confirm,
                 net, prompts, fsWrites, choice, probe>>

\* the Clean up block of generateCommand applied to one raw text
Extract ==
  /\ pc = "extract"
  /\ command' = extract(raw)
  /\ pc' = "extracted"
  /\ UNCHANGED <<args, file, config, modelOverride, remainingArgs, setupFrom,
                 models, selectedModel, userInput, raw, confirm, exitCode,
                 child, net, prompts, execs, out, fsWrites, choice, probe>>

Next ==
  \/ Help
  \/ Version
  \/ SetupFlag
  \/ Resolve
  \/ SetupCheck
  \/ SetupList
  \/ SelectModel
  \/ SaveConfig
  \/ Check
  \/ Ask
  \/ Generate
  \/ Confirm
  \/ Execute

Spec == Init /\ [][Next]_vars

\* runs with one more argument word, started without a preference file or
\* with a well-formed one: room for a flag, a model override and its name
\* next to an instruction
InitOverride ==
  /\ args \in Seqs(ArgTokens, MaxArgs + 1)
  /\ file \in {NoFile, [st |-> "json", value |-> JSPref(M1)]}
  /\ config = JSNull
  /\ modelOverride = NoOverride
  /\ remainingArgs = <<>>
  /\ setupFrom = "none"
  /\ models = <<>>
  /\ selectedModel = <<>>
  /\ userInput = <<>>
  /\ raw = <<>>
  /\ command = <<>>
  /\ confirm = <<>>
  /\ pc = "run"
  /\ exitCode = -1
  /\ child = NoChild
  /\ net = <<>>
  /\ prompts = <<>>
  /\ execs = <<>>
  /\ out = <<>>
  /\ fsWrites = <<>>
  /\ choice = <<>>
  /\ probe = <<>>

SpecOverride == InitOverride /\ [][Next]_vars

\* checkOllama() and getModels() called on one answer of GET /api/tags
Probe ==
  /\ pc = "probe"
  /\ Len(probe) < MaxProbes
  /\ \E resp \in TagsResponses :
       probe' = Append(probe, [resp |-> resp,
                               available |-> checkOllama(resp),
                               models |-> getModels(resp)])
  /\ UNCHANGED <<args, file, config, modelOverride, remainingArgs, setupFrom,
                 models, selectedModel, userInput, raw, command, confirm, pc,
                 exitCode, child, net, prompts, execs, out, fsWrites, choice>>

\* the availability check alone, called up to MaxProbes times
InitProbe ==
  /\ pc = "probe"
  /\ probe = <<>>
  /\ args = <<>>
  /\ file = NoFile
  /\ config = JSNull
  /\ modelOverride = NoOverride
  /\ remainingArgs = <<>>
  /\ setupFrom = "none"
  /\ models = <<>>
  /\ selectedModel = <<>>
  /\ userInput = <<>>
  /\ raw = <<>>
  /\ command = <<>>
  /\ confirm = <<>>
  /\ exitCode = -1
  /\ child = NoChild
  /\ net = <<>>
  /\ prompts = <<>>
  /\ execs = <<>>
  /\ out = <<>>
  /\ fsWrites = <<>>
  /\ choice = <<>>

NextProbe == Probe

SpecProbe == InitProbe /\ [][NextProbe]_vars

\* whole runs in which what the run waits for arrives: every fetch
\* settles, every prompt gets a line, the spawned command ends (weak
\* fairness of Next), and the operator comes to type a valid model number
\* (weak fairness of SelectValid, enabled at every selection prompt)
InitLive ==
  /\ args \in Seqs(ArgTokens, MaxLiveArgs)
  /\ file \in Files
  /\ config = JSNull
  /\ modelOverride = NoOverride
  /\ remainingArgs = <<>>
  /\ setupFrom = "none"
  /\ models = <<>>
  /\ selectedModel = <<>>
  /\ userInput = <<>>
  /\ raw = <<>>
  /\ command = <<>>
  /\ confirm = <<>>
  /\ pc = "run"
  /\ exitCode = -1
  /\ child = NoChild
  /\ net = <<>>
  /\ prompts = <<>>
  /\ execs = <<>>
  /\ out = <<>>
  /\ fsWrites = <<>>
  /\ choice = <<>>
  /\ probe = <<>>

SpecLive ==
  InitLive /\ [][Next]_vars /\ WF_vars(Next) /\ WF_vars(SelectValid)

\* the extraction alone, over every raw text up to MaxRawLen
InitExtract ==
  /\ raw \in Raws
  /\ pc = "extract"
  /\ args = <<>>
  /\ file = NoFile
  /\ config = JSNull
  /\ modelOverride = NoOverride
  /\ remainingArgs = <<>>
  /\ setupFrom = "none"
  /\ models = <<>>
  /\ selectedModel = <<>>
  /\ userInput = <<>>
  /\ command = <<>>
  /\ confirm = <<>>
  /\ exitCode = -1
  /\ child = NoChild
  /\ net = <<>>
  /\ prompts = <<>>
  /\ execs = <<>>
  /\ out = <<>>
  /\ fsWrites = <<>>
  /\ choice = <<>>
  /\ probe = <<>>

NextExtract == Extract

SpecExtract == InitExtract /\ [][NextExtract]_vars

\* --------------------------------------------------------------- claims
Answered == count(prompts, "confirm") > 0
Shown == count(out, "suggested command") > 0
Generated == \E i \in 1..Len(net) : net[i].ep = "generate"
GenOk == \E i \in 1..Len(net) : net[i].ep = "generate" /\ net[i].res = "ok"
GateFailed == \E i \in 1..Len(net) : net[i].at = "gate" /\ net[i].res # "ok"
GatePassed == \E i \in 1..Len(net) : net[i].at = "gate" /\ net[i].res = "ok"
Listed == \E i \in 1..Len(net) : net[i].at = "list"
Flags == HelpFlags \cup VersionFlags \cup SetupFlags \cup ModelFlags

\* C1: once the confirmation line is read, the executor is invoked if and
\* only if the line is the empty string; any other line, whitespace-only
\* included, executes nothing, prints the cancellation notice and ends the
\* run with exit code 0.
C1_ConfirmGate ==
  /\ (execs # <<>>) => (Answered /\ confirm = <<>>)
  /\ (Answered /\ confirm = <<>>) =>
       (pc = "execute" \/ (pc = "exited" /\ execs = <<command>>))
  /\ (Answered /\ confirm # <<>>) =>
       (/\ execs = <<>>
        /\ pc = "exited"
        /\ exitCode = 0
        /\ out[Len(out)] = "cancelled")

C1_Witness == Answered /\ confirm = <<" ">> /\ pc = "exited" /\ execs = <<>>

\* C2: the command displayed for confirmation is non-empty and holds no
\* backtick (hence no fence marker), and a raw response whose extraction
\* is not such a clean value ends the run with exit code 1 and without a
\* confirmation prompt.
C2_DisplayedCommandClean ==
  /\ Shown => (command # <<>> /\ ~includes(command, BT))
  /\ (GenOk /\ (command = <<>> \/ includes(command, BT))) =>
       (pc = "exited" /\ exitCode = 1 /\ ~Shown /\ ~Answered)

\* C3: when the availability check of run() fails, the run ends with exit
\* code 1 and there is no generation request, no instruction prompt, no
\* confirmation prompt and no execution.
C3_GateFailureIsFatal ==
  GateFailed =>
    (/\ pc = "exited"
     /\ exitCode = 1
     /\ ~Generated
     /\ count(prompts, "instruction") = 0
     /\ ~Answered
     /\ execs = <<>>)

C3_Witness == GateFailed /\ pc = "exited" /\ net[Len(net)].res = "badstatus"

OverrideAndInstruction ==
  \E i \in 1..(Len(args) - 1) :
    /\ args[i] \in ModelFlags
    /\ args[i + 1] \notin Flags \cup {<<>>}
    /\ \E j \in (1..Len(args)) \ {i, i + 1} : args[j] \notin Flags \cup {<<>>}

FirstOverrideAndInstruction ==
  \E i \in 1..(Len(args) - 1) :
    /\ args[i] \in ModelFlags
    /\ \A k \in 1..(i - 1) : args[k] \notin ModelFlags
    /\ args[i + 1] # <<>>
    /\ \E j \in (1..Len(args)) \ {i, i + 1} : args[j] \notin Flags \cup {<<>>}

\* C4 as stated: a run with -m/--model followed by a name and with an
\* instruction never enters setup and never writes the preference file.
C4_AsStated ==
  OverrideAndInstruction => (setupFrom = "none" /\ fsWrites = <<>>)

\* C4: a run whose arguments hold no --setup/-s word, whose first
\* -m/--model word is followed by a non-empty name and which has an
\* instruction never enters setup, even without a preference file, and
\* never writes the preference file.
C4_OverrideSkipsSetup ==
  (FirstOverrideAndInstruction /\ \A k \in 1..Len(args) : args[k] \notin SetupFlags)
    => (setupFrom = "none" /\ fsWrites = <<>> /\ count(prompts, "select") = 0)

C4_Witness ==
  /\ FirstOverrideAndInstruction
  /\ \A k \in 1..Len(args) : args[k] \notin SetupFlags
  /\ file = NoFile
  /\ Generated
  /\ pc = "exited"

\* what makes an outcome fatal, from what happened and not from the path
\* the code took
Fatal ==
  \/ \E i \in 1..Len(net) :
       net[i].ep = "tags" /\ net[i].at \in {"setup", "gate"} /\ net[i].res # "ok"
  \/ Listed /\ models = <<>>
  \/ /\ GatePassed
     /\ remainingArgs # <<>> \/ count(prompts, "instruction") > 0
     /\ trim(userInput) = <<>>
  \/ \E i \in 1..Len(net) : net[i].ep = "generate" /\ net[i].res # "ok"
  \/ GenOk /\ command \in {<<>>, Null4}
  \/ child.kind # "none" /\ ~(child.kind = "exit" /\ child.code = 0)
  \/ \E i \in 1..Len(fsWrites) : ~fsWrites[i].written

\* C5: the exit code is 1 in every fatal outcome (service unreachable in
\* setup or at the gate, no models, blank instruction, failed generation,
\* empty or null command, command failing or not spawning, preference not
\* written) and 0 in every other terminal outcome.
C5_ExitCodes == (pc = "exited") => (exitCode = IF Fatal THEN 1 ELSE 0)

C5_Witness ==
  pc = "exited" /\ child = [kind |-> "exit", code |-> 127] /\ exitCode = 1

\* C6: in setup, a listing with zero entries ends the run with exit code 1
\* before any selection prompt and without a write of the preference file.
C6_NoModelsIsFatal ==
  (Listed /\ models = <<>>) =>
    (/\ pc = "exited"
     /\ exitCode = 1
     /\ count(prompts, "select") = 0
     /\ fsWrites = <<>>)

C6_Witness ==
  Listed /\ models = <<>> /\ setupFrom = "firstrun" /\ pc = "exited"

Backticks(r) == {i \in 1..Len(r) : r[i] = BT}

\* the text between the first and the second backtick of r
Interior(r) ==
  LET B == Backticks(r)
      i == CHOOSE x \in B : \A y \in B : x <= y
      j == CHOOSE x \in B \ {i} : \A y \in B \ {i} : x <= y
  IN  SubSeq(r, i + 1, j - 1)

\* C7: of a raw response with exactly two backticks the extraction returns
\* the text between them, and the result has no leading or trailing
\* whitespace.
C7_SingleSpan ==
  (pc = "extracted" /\ Cardinality(Backticks(raw)) = 2) =>
    (/\ command = Interior(raw)
     /\ command = <<>> \/ (command[1] \notin WS /\ command[Len(command)] \notin WS))

\* C8: a raw response made only of fence markers, with or without
\* whitespace around them, is extracted to the empty string and the run
\* ends with exit code 1, no confirmation prompt and no execution.
C8_FenceOnly ==
  LET t == trim(raw)
  IN  (/\ GenOk
       /\ t # <<>>
       /\ Len(t) % 3 = 0
       /\ \A i \in 1..Len(t) : t[i] = BT) =>
        (/\ command = <<>>
         /\ pc = "exited"
         /\ exitCode = 1
         /\ ~Shown
         /\ ~Answered
         /\ execs = <<>>)

\* C9: of a raw response with two or more backtick-delimited spans the
\* extraction returns the interior of the first span, whatever the spans
\* hold.
C9_FirstSpan ==
  (pc = "extracted" /\ Cardinality(Backticks(raw)) >= 4) =>
    (command = Interior(raw))

\* C10: every generation request carries a defined, non-empty model name,
\* the override when one was given and the persisted preference otherwise;
\* a run without override that reaches generation without having entered
\* setup had a preference file holding an object with a model name.
C10_RequestModel ==
  /\ \A i \in 1..Len(net) :
       (net[i].ep = "generate") =>
         (/\ net[i].model.defined
          /\ net[i].model.name # <<>>
          /\ net[i].model.name = IF modelOverride.set THEN modelOverride.name
                                 ELSE file.value.model)
  /\ (Generated /\ ~modelOverride.set /\ setupFrom = "none") =>
       (file.st = "json" /\ file.value.t = "pref" /\ file.value.model # <<>>)

\* C11: checkOllama returns false when the listing request fails on the
\* network, answers with a status that is no success, or answers with a
\* success status and a body that is no JSON or has no model list; it
\* returns true only for a well-formed success answer.
C11_AvailabilityProbe ==
  \A i \in 1..Len(probe) :
    probe[i].available =
      (probe[i].resp.net /\ probe[i].resp.ok /\ probe[i].resp.body = "list")

ExitFlags == HelpFlags \cup VersionFlags \cup SetupFlags

\* the first help, version or setup word of the arguments is in F
FirstExitFlagIn(F) ==
  \E i \in 1..Len(args) :
    args[i] \in F /\ \A k \in 1..(i - 1) : args[k] \notin ExitFlags

NoSideEffect ==
  /\ pc \in {"run", "exited"}
  /\ pc = "exited" => (exitCode = 0 /\ out = <<"help">>)
  /\ net = <<>>
  /\ prompts = <<>>
  /\ execs = <<>>
  /\ fsWrites = <<>>
  /\ setupFrom = "none"
  /\ config = JSNull

\* C12 as stated: whenever --help or -h is among the arguments, in any
\* place, the run prints usage and exits 0 with no network call, no use of
\* the preference file, no prompt and no execution.
C12_AsStated ==
  (\E i \in 1..Len(args) : args[i] \in HelpFlags) => NoSideEffect

\* C12: when the first help, version or setup word of the arguments is
\* --help or -h, the run prints usage and exits 0 with no network call, no
\* use of the preference file, no prompt and no execution, whatever other
\* words come with it.
C12_HelpFirst == FirstExitFlagIn(HelpFlags) => NoSideEffect

C12_Witness ==
  /\ FirstExitFlagIn(HelpFlags)
  /\ \E i \in 1..Len(args) : args[i] \in SetupFlags
  /\ \E i \in 1..Len(args) : args[i] \in ModelFlags
  /\ pc = "exited"

\* C13: a run whose first help, version or setup word is --setup or -s
\* never sends a generation request, never asks for an instruction or a
\* confirmation and never executes, instruction and override on the
\* command line or not; it ends right after setup, and when it ends with
\* exit code 0 a model was selected at the prompt and persisted.
C13_SetupOnly ==
  FirstExitFlagIn(SetupFlags) =>
    (/\ pc \in {"run", "setup", "list", "select", "save", "exited"}
     /\ \A i \in 1..Len(net) : net[i].at \in {"setup", "list"}
     /\ count(prompts, "instruction") = 0
     /\ ~Answered
     /\ execs = <<>>
     /\ (pc = "exited" /\ exitCode = 0) =>
          (/\ count(prompts, "select") >= 1
           /\ Len(fsWrites) = 1
           /\ fsWrites[1].written
           /\ \E k \in 1..Len(models) : selectedModel = models[k]
           /\ file = [st |-> "json", value |-> JSPref(selectedModel)]))

C13_Witness ==
  /\ FirstExitFlagIn(SetupFlags)
  /\ \E i \in 1..Len(args) : args[i] \in ModelFlags
  /\ pc = "exited"
  /\ exitCode = 0

Acquired ==
  GatePassed /\ (remainingArgs # <<>> \/ count(prompts, "instruction") > 0)

\* C14: an instruction that is empty or only whitespace, typed at the
\* prompt or joined from the arguments, ends the run with exit code 1 and
\* without generation request, confirmation prompt or execution.
C14_BlankInstruction ==
  (Acquired /\ \A i \in 1..Len(userInput) : userInput[i] \in WS) =>
    (/\ pc = "exited"
     /\ exitCode = 1
     /\ ~Generated
     /\ ~Shown
     /\ ~Answered
     /\ execs = <<>>)

C14_Witness ==
  /\ Acquired
  /\ remainingArgs = <<<<>>, <<>>>>
  /\ userInput = <<" ">>
  /\ pc = "exited"

\* t occurs in s
Contains(s, t) ==
  \E k \in 0..(Len(s) - Len(t)) : SubSeq(s, k + 1, k + Len(t)) = t

\* the place of the first --model or -m word (there is one)
FirstModelFlag ==
  CHOOSE i \in 1..Len(args) :
    args[i] \in ModelFlags /\ \A k \in 1..(i - 1) : args[k] \notin ModelFlags

\* the arguments without the words at places i and i + 1
Others(i) == [k \in 1..(Len(args) - 2) |-> IF k < i THEN args[k] ELSE args[k + 2]]

ModelFlagNoExitFlag ==
  /\ \E i \in 1..Len(args) : args[i] \in ModelFlags
  /\ \A k \in 1..Len(args) : args[k] \notin ExitFlags

\* C15 as stated: with --model or -m among the arguments (and no help,
\* version or setup flag), the instruction of the generation request is the
\* space-join of the other arguments, holds neither the flag nor its
\* value, and the model of the request is that value.
C15_AsStated ==
  ModelFlagNoExitFlag =>
    \A n \in 1..Len(net) :
      (net[n].ep = "generate") =>
        (/\ FirstModelFlag + 1 <= Len(args)
         /\ net[n].instruction = join(Others(FirstModelFlag))
         /\ ~Contains(net[n].instruction, args[FirstModelFlag])
         /\ ~Contains(net[n].instruction, args[FirstModelFlag + 1])
         /\ net[n].model = [defined |-> TRUE, name |-> args[FirstModelFlag + 1]])

\* C15: with no help, version or setup flag and with the first --model or
\* -m word followed by a non-empty value, that flag word and its value are
\* taken out before the instruction is assembled: the instruction of the
\* generation request is the space-join of the other arguments, in order,
\* or the line typed at the prompt when there is no other argument, and
\* the model of the request is the value.
C15_OverrideConsumed ==
  (/\ ModelFlagNoExitFlag
   /\ FirstModelFlag + 1 <= Len(args)
   /\ args[FirstModelFlag + 1] # <<>>) =>
    \A n \in 1..Len(net) :
      (net[n].ep = "generate") =>
        (/\ (Len(args) > 2) =>
              (/\ net[n].instruction = join(Others(FirstModelFlag))
               /\ count(prompts, "instruction") = 0)
         /\ (Len(args) = 2) =>
              (/\ net[n].instruction = userInput
               /\ count(prompts, "instruction") = 1)
         /\ net[n].model = [defined |-> TRUE, name |-> args[FirstModelFlag + 1]])

C15_Witness ==
  /\ args = <<Ls, <<"-", "m">>, M2>>
  /\ Generated
  /\ pc = "exited"

\* the line is a decimal numeral, blanks around it apart
Numeral(line) ==
  /\ trim(line) # <<>>
  /\ \A i \in 1..Len(trim(line)) : isDigit(trim(line)[i])

\* the line denotes an index of 1..n
Denotes(line, n) == Numeral(line) /\ parseInt(line).val \in 1..n

\* C16: in the selection loop a line that is no number or is outside 1..n
\* leads to a new prompt and neither ends the run nor writes the
\* preference file; the file is written once, after the first line that
\* denotes an index k of 1..n, with the name of the k-th listed model.
C16_SelectionLoop ==
  /\ (pc = "select" /\ count(prompts, "select") > 0) =>
       (~Denotes(choice, Len(models)) /\ fsWrites = <<>>)
  /\ (pc = "save") =>
       (/\ Denotes(choice, Len(models))
        /\ selectedModel = models[parseInt(choice).val]
        /\ fsWrites = <<>>)
  /\ Len(fsWrites) <= 1
  /\ (fsWrites # <<>>) =>
       (/\ fsWrites[1].value = JSPref(selectedModel)
        /\ \E k \in 1..Len(models) : selectedModel = models[k])

\* C17: one invocation sends at most one generation request and runs at
\* most one command, and a fatal error (failed availability check, no
\* model, blank instruction, failed generation, failed execution, failed
\* write) is the last thing that happens: the run is over with exit code
\* 1 and the failed request or command is the last one.
C17_NoRetry ==
  /\ Cardinality({i \in 1..Len(net) : net[i].ep = "generate"}) <= 1
  /\ Len(execs) <= 1
  /\ Fatal => (pc = "exited" /\ exitCode = 1)
  /\ \A i \in 1..Len(net) :
       (net[i].at \in {"setup", "gate", "generate"} /\ net[i].res # "ok")
         => (i = Len(net) /\ execs = <<>>)
  /\ (child.kind # "none") => pc = "exited"

C17_Witness ==
  /\ pc = "exited"
  /\ Generated
  /\ net[Len(net)].res = "badstatus"
  /\ exitCode = 1

\* the notices a, b, c were printed in this order
InOrder(a, b, c) ==
  \E i, j, k \in 1..Len(out) :
    i < j /\ j < k /\ out[i] = a /\ out[j] = b /\ out[k] = c

C19_Terminates ==
  /\ <>(pc = "exited")
  /\ [][pc' # pc \/ pc = "select"]_vars

C19_Witness ==
  /\ pc = "exited"
  /\ count(out, "invalid selection") >= 1
  /\ setupFrom = "firstrun"
  /\ exitCode = 0

====
